---- MODULE Spec2Model ----
(***************************************************************************)
(* Crawl job orchestration of src/src/crawler/crawlerService.js: one crawl *)
(* job (an entry of activeCrawls plus its CrawlJob document), the          *)
(* processCrawl loops that run for it, and the commands pauseCrawl,        *)
(* resumeCrawl and stopCrawl.                                              *)
(*                                                                         *)
(* Every asynchronous function is cut at its awaits.  A process's pc names *)
(* the operation it is awaiting; one step of the process is the effect of  *)
(* that operation followed by the synchronous code up to the next await.   *)
(* Reads that change nothing (CrawlJob.findById in updateCrawlStatus,      *)
(* page.waitForLoadState) are merged into the step that follows them, and  *)
(* so is the push to the document's ocrResults, which nothing reads.       *)
(*                                                                         *)
(* Spec is that job on its own.  The other specifications look at what    *)
(* surrounds it: SocketSpec attaches the socket server and the status      *)
(* poller of the controller, NoPrioritySpec is the crawl whose advisory    *)
(* service suggests nothing, StartSpec is the route that starts a job,     *)
(* ScrollSpec is handleInfiniteScroll call by call, LogsSpec is the logs   *)
(* route, and JobsSpec runs several jobs side by side.  PrioritySpec is    *)
(* the urlQueue of processCrawl on its own, OcrSpec the confidence score   *)
(* of the OCR service, StartupSpec startCrawl await by await.  WritesSpec  *)
(* is Spec with updates of the document that reject, and FairSpec is       *)
(* WritesSpec in which every call made returns.                            *)
(***************************************************************************)
EXTENDS Integers, Sequences, FiniteSets, TLC

\* ---------------------------------------------------------------- bounds
\* what happens to a job beyond the undisturbed crawl: accepted pause,
\* resume and stop commands, failing calls no closed capture session
\* explains, and non-empty priorityUrls answers of analyzePage
MaxEvents == 2
MaxDepthBound == 1   \* largest crawl depth a job is started with
MaxPriority == 1     \* longest priorityUrls answer of analyzePage
MaxDepthHalves == 22 \* the depths a request may ask for: 0, 0.5, 1, .. 11
MaxLoads == 3        \* how many times a page loads more content when scrolled
MaxScrollOption == 3 \* largest options.maxScrolls a crawl is configured with
MaxLogs == 2         \* most visited urls, errors and ocr results of a document
MaxTime == 2         \* latest time stamp stored in a document
MaxQuery == 3        \* largest limit and offset of a logs request
MaxJobCommands == 2  \* accepted pause, resume and stop commands on all jobs
MaxQueued == 2       \* entries of a urlQueue when priority urls are inserted
MaxSuggested == 2    \* longest priorityUrls answer inserted into such a queue
MaxLetters == 6      \* letters of a word of a recognized text
MaxGlyphs == 1       \* error glyphs at the end of a word
MaxSpaces == 1       \* white space after a word
MaxWords == 50       \* how many times the word is repeated in the text

\* ------------------------------------------------------- the site crawled
Urls == {"r", "a", "b"}
Root == "r"

\* extractLinks: the unique same-origin links of each page, in page order
\* (every page links back to the root, the root also to itself; no page links
\* to "b": only a priorityUrls answer leads there)
Links(u) ==
  CASE u = "r" -> <<"a", "r">>
    [] u = "a" -> <<"r">>
    [] u = "b" -> <<"r">>

\* the answers analyzePage can give for priorityUrls (in answer order)
PriorityAnswers == UNION {[1..n -> Urls] : n \in 0..MaxPriority}

\* a resume needs a pause before it, so a job sees at most this many
\* processCrawl invocations: the one of startCrawl and one per resume
MaxLoops == 1 + (MaxEvents \div 2)
LoopIds == 1..MaxLoops
StopIds == 1..MaxEvents

VARIABLES
  active,        \* activeCrawls.has(crawlId)
  status,        \* crawlData.status
  maxDepth,      \* crawlData.depth
  errors,        \* crawlData.errors: entries per url ("job": a status error)
  capturedScreenshots, \* crawlData.capturedScreenshots: entries per url
  pages,         \* crawlData.pages, in insertion order (loop ids)
  closedPages,   \* the pages page.close() has been called on
  contextClosed, \* context.close() has been called
  browserCloses, \* browser.close() calls
  db,            \* the CrawlJob document
  loops,         \* the processCrawl invocations
  nloops,        \* processCrawl invocations made so far
  stops,         \* the stopCrawl calls
  nstops,        \* stopCrawl calls made so far
  npauses,       \* successful pauseCrawl calls made so far
  pausePending,  \* pauseCrawl calls awaiting their CrawlJob.updateOne
  resumePending, \* resumeCrawl calls awaiting their CrawlJob.updateOne
  events,        \* failing calls no closed session explains and non-empty
                 \* priorityUrls answers so far
  io,            \* socketManager: a socket server is attached (io is not null)
  request,       \* the body of a POST /crawler/start request and how far it got
  scroll,        \* a call of handleInfiniteScroll and the page it scrolls
  logs,          \* a GET /crawler/:id/logs request, the document it reads
                 \* and its answer
  jobs,          \* several crawl jobs side by side: activeCrawls, the CrawlJob
                 \* collection, the processCrawl invocations, the browsers
  frontier,      \* the urlQueue and visitedUrls of a processCrawl invocation
                 \* around one priority insertion
  ocr,           \* a call of calculateConfidence: its text and what it returned
  startup,       \* a call of startCrawl, await by await, and the browser it launched
  emitted        \* the crawlerUpdate events emitted so far

vars == <<active, status, maxDepth, errors, capturedScreenshots, pages,
          closedPages, contextClosed, browserCloses, db, loops, nloops,
          stops, nstops, npauses, pausePending, resumePending, events,
          io, request, scroll, logs, jobs, frontier, ocr, startup, emitted>>

jobVars == <<active, status, maxDepth, errors, capturedScreenshots>>
sessionVars == <<pages, closedPages, contextClosed, browserCloses>>
cmdVars == <<stops, nstops, npauses, pausePending, resumePending>>
\* the value of a variable in the specifications that do not look at it
None == <<>>

\* what the crawl of a job never writes
otherVars == <<io, request, scroll, logs, jobs, frontier, ocr, startup>>
crawlVars == <<jobVars, sessionVars, db, loops, nloops, cmdVars, events>>

Terminal == {"stopped", "completed", "failed"}

\* the per-URL pipeline stages of processCrawl, in order
Stages == {"goto", "scroll", "shot", "ocr", "links", "update", "ai", "delay"}
\* the stages that drive the page of the capture session
PageStages == {"goto", "scroll", "shot", "links", "ai"}
CleanupPcs == {"cl_pages", "cl_context", "cl_browser", "cl_db"}

IdleLoop ==
  [pc |-> "idle", visited |-> {}, queue |-> <<>>, url |-> "", depth |-> 0,
   failing |-> FALSE, ci |-> 0, cs |-> 0, ce |-> 0]

IdleStop == [pc |-> "idle", res |-> "none", ci |-> 0, cs |-> 0, ce |-> 0]

\* The lists of the job (crawlData.errors, capturedScreenshots, the document's
\* visitedUrls and errors) are only ever appended to and read by length, so
\* each is kept as the number of its entries per url
ErrKeys == Urls \cup {"job"}
NoEntries(keys) == [k \in keys |-> 0]
Push(list, k) == [list EXCEPT ![k] = @ + 1]

RECURSIVE Count(_, _)
Count(list, keys) ==
  IF keys = {} THEN 0
  ELSE LET k == CHOOSE x \in keys : TRUE IN list[k] + Count(list, keys \ {k})

Length(list) == Count(list, DOMAIN list)

NoDoc ==
  [status |-> "none", visitedUrls |-> NoEntries(Urls), pagesProcessed |-> 0,
   errors |-> NoEntries(Urls), screenshotCount |-> 0, errorCount |-> 0]

\* getCrawlStatus: an active job is reported from its activeCrawls entry, whose
\* fields (lines 106-119) hold no visitedUrls, so that
\* "activeCrawl.visitedUrls?.size || 0" is 0; any other job is reported from
\* its document, and an unknown id gives null
GetCrawlStatus ==
  IF active
  THEN [found |-> TRUE, status |-> status, pagesProcessed |-> 0,
        screenshotCount |-> Length(capturedScreenshots),
        errorCount |-> Length(errors), isActive |-> TRUE]
  ELSE IF db.status = "none"
  THEN [found |-> FALSE, status |-> "none", pagesProcessed |-> 0,
        screenshotCount |-> 0, errorCount |-> 0, isActive |-> FALSE]
  ELSE [found |-> TRUE, status |-> db.status,
        pagesProcessed |-> Length(db.visitedUrls),
        screenshotCount |-> db.screenshotCount,
        errorCount |-> db.errorCount, isActive |-> FALSE]

\* ------------------------------------------------ POST /crawler/start
\* the depth of a request body: left out, a JSON number (in tenths, so that
\* 25 is 2.5), the JSON value true, or a string that is no number
DepthInputs ==
  [kind : {"number"}, tenths : {5 * i : i \in 0..MaxDepthHalves}]
    \cup [kind : {"undefined", "true", "text"}, tenths : {0}]

\* the url of a request body: left out, the empty string, a relative
\* reference (new URL throws without a base), an absolute URL
UrlInputs == {"undefined", "empty", "relative", "absolute"}

KeywordInputs == {"undefined", "array", "string"}

Requests ==
  [url : UrlInputs, depth : DepthInputs, keywords : KeywordInputs,
   stage : {"received"}]

MinRequestDepth == 1
MaxRequestDepth == 10
DefaultDepth == 2

\* Number(depth), in tenths; -1 stands for NaN
NumberOf(d) ==
  CASE d.kind = "number" -> d.tenths
    [] d.kind = "true" -> 10
    [] OTHER -> -1

\* parseInt(depth): the digits before the decimal point of the value printed
\* as a string; -1 stands for NaN
ParseInt(d) == IF d.kind = "number" THEN d.tenths \div 10 ELSE -1

\* "parseInt(depth) || 2": NaN and 0 are falsy
DepthOrDefault(d) == IF ParseInt(d) <= 0 THEN DefaultDepth ELSE ParseInt(d)

\* validateCrawlRequest: TRUE when next() is called, FALSE when the request
\* is answered 400
ValidCrawlRequest(r) ==
  /\ r.url \notin {"undefined", "empty"}
  /\ r.url # "relative"
  /\ r.depth.kind # "undefined" =>
       ~(NumberOf(r.depth) = -1 \/ NumberOf(r.depth) < 10 * MinRequestDepth
                                \/ NumberOf(r.depth) > 10 * MaxRequestDepth)
  /\ r.keywords \in {"undefined", "array"}

\* ------------------------------------------------ handleInfiniteScroll
DefaultMaxScrolls == 10

\* line 302, "options.maxScrolls || 10": 0 stands for an option left out, and
\* an option of 0 is falsy as well
MaxScrolls(option) == IF option = 0 THEN DefaultMaxScrolls ELSE option

\* lines 305-307: the locals at the first test of the while loop, which
\* passes (no scroll yet, no time gone); the page has some scroll height,
\* some content still to load, and nothing was called on it yet
ScrollStart(option, height, loads) ==
  [pc |-> "measure", maxScrolls |-> MaxScrolls(option), previousHeight |-> 0,
   currentHeight |-> 0, scrollCount |-> 0, height |-> height, loads |-> loads,
   measured |-> <<>>, scrolled |-> 0, lastCall |-> "none"]

\* ------------------------------------------------ GET /crawler/:id/logs
DefaultLimit == 100

\* the time stamps of a list of the document: entries are pushed with the
\* time of the push, so they never decrease along the list
Stamps ==
  {s \in UNION {[1..n -> 1..MaxTime] : n \in 0..MaxLogs} :
     \A i \in 1..(Len(s) - 1) : s[i] <= s[i + 1]}

\* the time of the request, later than anything stored
Now == MaxTime + 1

\* a CrawlJob document as getCrawlLogs reads it: how many visited urls, the
\* time stamps of the errors and of the ocr results; tick tells whether the
\* clock advances between the "new Date()" of two visited urls
LogDocs == [visited : 0..MaxLogs, errors : Stamps, ocrResults : Stamps,
            tick : 0..1]

\* a query parameter: left out, or a number
QueryValues == [given : BOOLEAN, n : 0..MaxQuery] \ [given : {FALSE}, n : 1..MaxQuery]

\* "parseInt(req.query.x) || dflt": NaN and 0 are falsy
QueryOrDefault(q, dflt) == IF ~q.given \/ q.n = 0 THEN dflt ELSE q.n

NoLogs ==
  [pc |-> "none", found |-> FALSE,
   doc |-> [visited |-> 0, errors |-> <<>>, ocrResults |-> <<>>, tick |-> 0],
   limitQuery |-> [given |-> FALSE, n |-> 0],
   offsetQuery |-> [given |-> FALSE, n |-> 0],
   limit |-> 0, offset |-> 0, answer |-> 0, result |-> <<>>]

\* lines 751-779: the entries, visited urls first (stamped with the time of
\* the call), then the errors, then the ocr results
LogEntries(doc) ==
  [i \in 1..doc.visited |->
     [type |-> "url", timestamp |-> Now + doc.tick * (i - 1), n |-> i]]
  \o [i \in 1..Len(doc.errors) |->
        [type |-> "error", timestamp |-> doc.errors[i], n |-> i]]
  \o [i \in 1..Len(doc.ocrResults) |->
        [type |-> "ocr", timestamp |-> doc.ocrResults[i], n |-> i]]

\* Array.prototype.sort with "(a, b) => b.timestamp - a.timestamp", which is
\* stable: an entry goes before the first one it is newer than
RECURSIVE InsertNewestFirst(_, _)
InsertNewestFirst(s, e) ==
  IF s = <<>> THEN <<e>>
  ELSE IF e.timestamp > Head(s).timestamp THEN <<e>> \o s
       ELSE <<Head(s)>> \o InsertNewestFirst(Tail(s), e)

RECURSIVE SortNewestFirst(_)
SortNewestFirst(s) ==
  IF s = <<>> THEN <<>>
  ELSE InsertNewestFirst(SortNewestFirst(SubSeq(s, 1, Len(s) - 1)), s[Len(s)])

\* Array.prototype.slice(start, end) for start, end >= 0
Slice(s, start, end) ==
  SubSeq(s, start + 1, IF end < Len(s) THEN end ELSE Len(s))

\* getCrawlLogs with "logs.slice(offset, limit)"
GetCrawlLogs_SliceToLimit(doc, limit, offset) ==
  Slice(SortNewestFirst(LogEntries(doc)), offset, limit)

\* getCrawlLogs for a document that was found, lines 751-785
GetCrawlLogs(doc, limit, offset) ==
  Slice(SortNewestFirst(LogEntries(doc)), offset, offset + limit)

\* ------------------------------------------------ several jobs at once
JobIds == {"A", "B"}
\* startCrawl launches one browser per job
BrowserIds == 1..Cardinality(JobIds)

NoEntry == [active |-> FALSE, status |-> "none", browser |-> 0, depth |-> 0,
            errors |-> 0]
NoJobDoc == [status |-> "none", pagesProcessed |-> 0, errors |-> 0,
             errorCount |-> 0]
NoBrowser == [launchedBy |-> "", open |-> FALSE, usedBy |-> {}, closedBy |-> {}]

\* entry: activeCrawls; doc: the CrawlJob collection; proc: the processCrawl
\* invocations of each job; last: the crawlId of the latest call
NoJobs ==
  [entry |-> [j \in JobIds |-> NoEntry], doc |-> [j \in JobIds |-> NoJobDoc],
   proc |-> [j \in JobIds |-> <<>>],
   browsers |-> [b \in BrowserIds |-> NoBrowser],
   launched |-> 0, commands |-> 0, last |-> ""]

\* a browser shared by all jobs
Launch_Shared(J) == 1

\* chromium.launch (line 81): every call gives a new browser
Launch(J) == J.launched + 1

\* line 172 for a job with the given depth
RECURSIVE JobSkip(_, _, _)
JobSkip(q, vis, depth) ==
  IF q = <<>> THEN q
  ELSE IF Head(q).url \in vis \/ Head(q).depth > depth
       THEN JobSkip(Tail(q), vis, depth)
       ELSE q

\* a processCrawl invocation of a job: lines 152-153
NewProc == [pc |-> "run", queue |-> <<[url |-> Root, depth |-> 0]>>, visited |-> {}]

\* updateCrawlStatus(crawlId, st)
JobStatus(J, j, st) ==
  [J EXCEPT !.doc[j].status = st,
            !.entry[j].status = IF J.entry[j].active THEN st ELSE @]

\* cleanupCrawl(crawlId): the browser of the entry is closed, the counts are
\* written, the entry is deleted
JobCleanup(J, j) ==
  IF ~J.entry[j].active THEN J
  ELSE [J EXCEPT !.browsers[J.entry[j].browser] =
                    [@ EXCEPT !.open = FALSE, !.closedBy = @ \cup {j}],
                 !.doc[j].errorCount = J.entry[j].errors,
                 !.entry[j].active = FALSE]

\* no job has been started
NoJob ==
  /\ active = FALSE
  /\ status = "none"
  /\ maxDepth = 0
  /\ errors = NoEntries(ErrKeys)
  /\ capturedScreenshots = NoEntries(Urls)
  /\ pages = <<>>
  /\ closedPages = {}
  /\ contextClosed = FALSE
  /\ browserCloses = 0
  /\ db = NoDoc
  /\ loops = [l \in LoopIds |-> IdleLoop]
  /\ nloops = 0
  /\ stops = [s \in StopIds |-> IdleStop]
  /\ nstops = 0
  /\ npauses = 0
  /\ pausePending = 0
  /\ resumePending = 0
  /\ events = 0
  /\ emitted = {}

\* the crawler service on its own: setupSocketHandlers has not been called,
\* so that io is null and every broadcast returns at once
Init ==
  /\ NoJob
  /\ io = FALSE
  /\ request = None
  /\ scroll = None
  /\ logs = None
  /\ jobs = None
  /\ startup = None
  /\ ocr = None
  /\ frontier = None

\* a new processCrawl invocation: fresh visitedUrls, queue seeded with the root
NewLoop ==
  [IdleLoop EXCEPT !.pc = "newPage", !.queue = <<[url |-> Root, depth |-> 0]>>]

\* startCrawl: the document is saved with status running, the browser and its
\* context are created, the activeCrawls entry is stored, processCrawl begins
StartCrawl(depth) ==
  /\ db.status = "none"
  /\ UNCHANGED <<emitted, otherVars>>
  /\ active' = TRUE
  /\ status' = "running"
  /\ maxDepth' = depth
  /\ db' = [db EXCEPT !.status = "running"]
  /\ loops' = [loops EXCEPT ![1] = NewLoop]
  /\ nloops' = 1
  /\ UNCHANGED <<errors, capturedScreenshots, sessionVars, cmdVars, events>>

\* ------------------------------------------------------ capture session
\* a page is unusable once it, its context or its browser has been closed
PageClosed(l) == l \in closedPages \/ contextClosed \/ browserCloses > 0
ContextClosed == contextClosed \/ browserCloses > 0

\* ------------------------------------------------------------ processCrawl
\* Skip without the depth test of line 172
RECURSIVE Skip_NoDepthTest(_, _)
Skip_NoDepthTest(q, vis) ==
  IF q = <<>> THEN q
  ELSE IF Head(q).url \in vis THEN Skip_NoDepthTest(Tail(q), vis)
       ELSE q

\* Skip without the visited test of line 172
RECURSIVE Skip_NoVisitedTest(_, _)
Skip_NoVisitedTest(q, vis) ==
  IF q = <<>> THEN q
  ELSE IF Head(q).depth > maxDepth THEN Skip_NoVisitedTest(Tail(q), vis)
       ELSE q

\* line 172: entries already visited or deeper than maxDepth are skipped
RECURSIVE Skip(_, _)
Skip(q, vis) ==
  IF q = <<>> THEN q
  ELSE IF Head(q).url \in vis \/ Head(q).depth > maxDepth
       THEN Skip(Tail(q), vis)
       ELSE q

\* lines 168-175: the while test, the shift and the visited marking, up to the
\* call of page.goto; the loop is left for updateCrawlStatus('completed')
LoopHead(r) ==
  IF status # "running"
  THEN [r EXCEPT !.pc = "st_completed"]
  ELSE LET q == Skip(r.queue, r.visited) IN
       IF q = <<>>
       THEN [r EXCEPT !.pc = "st_completed", !.queue = <<>>]
       ELSE [r EXCEPT !.pc = "goto", !.queue = Tail(q),
                      !.visited = @ \cup {Head(q).url},
                      !.url = Head(q).url, !.depth = Head(q).depth]

\* commands accepted so far (a rejected command changes nothing)
Issued == npauses + (nloops - 1) + resumePending + nstops

\* what has happened to the job so far beyond the undisturbed crawl
Spent == Issued + events

\* the outcome of a stage that drives the page: it fails on a closed page,
\* and may fail on its own
StageOutcome(l, ok) ==
  /\ ok => ~PageClosed(l)
  /\ (~ok /\ ~PageClosed(l)) => Spent < MaxEvents
  /\ events' = IF ~ok /\ ~PageClosed(l) THEN events + 1 ELSE events

\* the outcome of a call that does not drive the page (the recognition
\* service, an update of the CrawlJob document): it may fail on its own
CallOutcome(ok) ==
  /\ ~ok => Spent < MaxEvents
  /\ events' = IF ok THEN events ELSE events + 1

\* lines 227-229: discovered links are appended one level deeper
RECURSIVE PushLinks(_, _, _)
PushLinks(q, links, d) ==
  IF links = <<>> THEN q
  ELSE PushLinks(Append(q, [url |-> Head(links), depth |-> d]), Tail(links), d)

\* UnshiftPriority putting the urls at the head in the order of the answer
RECURSIVE UnshiftPriority_AnswerOrder(_, _, _, _)
UnshiftPriority_AnswerOrder(q, prio, vis, d) ==
  IF prio = <<>> THEN q
  ELSE IF Head(prio) \in vis THEN UnshiftPriority_AnswerOrder(q, Tail(prio), vis, d)
       ELSE <<[url |-> Head(prio), depth |-> d]>>
              \o UnshiftPriority_AnswerOrder(q, Tail(prio), vis, d)

\* lines 255-259: priority urls not yet visited go to the head of the queue
RECURSIVE UnshiftPriority(_, _, _, _)
UnshiftPriority(q, prio, vis, d) ==
  IF prio = <<>> THEN q
  ELSE UnshiftPriority(
         IF Head(prio) \in vis THEN q
         ELSE <<[url |-> Head(prio), depth |-> d]>> \o q,
         Tail(prio), vis, d)

\* cleanupCrawl, lines 537-552: nothing to do for an unknown job; otherwise
\* the first close call is issued
CleanupEntry == IF ~active THEN "ret"
                ELSE IF Len(pages) > 0 THEN "cl_pages" ELSE "cl_context"

\* where processCrawl goes when its finally block is over: a failing loop
\* rejects, which runs the .catch of its caller (lines 123-126, 687-690)
AfterFinally(r) == IF r.failing THEN "st_failed2" ELSE "done"

\* leaving the try block; urlQueue and the current entry go out of scope
EnterCleanup(r) ==
  LET out == [r EXCEPT !.queue = <<>>, !.url = "", !.depth = 0] IN
  IF CleanupEntry = "ret" THEN [out EXCEPT !.pc = AfterFinally(r)]
  ELSE [out EXCEPT !.pc = CleanupEntry,
                   !.ci = IF CleanupEntry = "cl_pages" THEN 1 ELSE 0]

\* lines 157-158: context.newPage(); it throws on a closed context and may
\* throw on its own, which the outer catch (line 282) turns into
\* updateCrawlStatus('failed')
NewPage(l) ==
  /\ loops[l].pc = "newPage"
  /\ UNCHANGED <<emitted, otherVars>>
  /\ \E ok \in BOOLEAN :
       /\ ok => ~ContextClosed
       /\ (~ok /\ ~ContextClosed) => Spent < MaxEvents
       /\ events' = IF ~ok /\ ~ContextClosed THEN events + 1 ELSE events
       /\ IF ok
          THEN /\ pages' = Append(pages, l)
               /\ loops' = [loops EXCEPT ![l] = LoopHead(@)]
          ELSE /\ loops' = [loops EXCEPT ![l] =
                              [@ EXCEPT !.pc = "st_failed", !.failing = TRUE]]
               /\ UNCHANGED pages
  /\ UNCHANGED <<jobVars, closedPages, contextClosed, browserCloses, db, nloops,
                 cmdVars>>

\* UrlError without the in-memory error record
UrlError_NoRecord(l) ==
  /\ errors' = errors
  /\ loops' = [loops EXCEPT ![l] = [@ EXCEPT !.pc = "err_db"]]

\* lines 265-267: the catch of the per-URL try records the error in memory
\* and goes on to persist it
UrlError(l) ==
  /\ errors' = Push(errors, loops[l].url)
  /\ loops' = [loops EXCEPT ![l] = [@ EXCEPT !.pc = "err_db"]]

\* lines 181-187: page.goto
Goto(l) ==
  /\ loops[l].pc = "goto"
  /\ UNCHANGED <<emitted, otherVars>>
  /\ \E ok \in BOOLEAN :
       /\ StageOutcome(l, ok)
       /\ IF ok
          THEN /\ loops' = [loops EXCEPT ![l] = [@ EXCEPT !.pc = "scroll"]]
               /\ UNCHANGED errors
          ELSE UrlError(l)
  /\ UNCHANGED <<active, status, maxDepth, capturedScreenshots, sessionVars, db,
                 nloops, cmdVars>>

\* lines 190-192: handleInfiniteScroll; what it throws is not caught before
\* the per-URL catch
Scroll(l) ==
  /\ loops[l].pc = "scroll"
  /\ UNCHANGED <<emitted, otherVars>>
  /\ \E ok \in BOOLEAN :
       /\ StageOutcome(l, ok)
       /\ IF ok
          THEN /\ loops' = [loops EXCEPT ![l] = [@ EXCEPT !.pc = "shot"]]
               /\ UNCHANGED errors
          ELSE UrlError(l)
  /\ UNCHANGED <<active, status, maxDepth, capturedScreenshots, sessionVars, db,
                 nloops, cmdVars>>

\* lines 195-197: page.screenshot
Shot(l) ==
  /\ loops[l].pc = "shot"
  /\ UNCHANGED <<emitted, otherVars>>
  /\ \E ok \in BOOLEAN :
       /\ StageOutcome(l, ok)
       /\ IF ok
          THEN /\ loops' = [loops EXCEPT ![l] = [@ EXCEPT !.pc = "ocr"]]
               /\ capturedScreenshots' = Push(capturedScreenshots, loops[l].url)
               /\ UNCHANGED errors
          ELSE /\ UrlError(l)
               /\ UNCHANGED capturedScreenshots
  /\ UNCHANGED <<active, status, maxDepth, sessionVars, db,
                 nloops, cmdVars>>

\* AfterOcr without link extraction
AfterOcr_NoLinks(r) == "update"

\* line 223: link extraction follows recognition only above maxDepth
AfterOcr(r) == IF r.depth < maxDepth THEN "links" ELSE "update"

\* Ocr with a recognition failure reaching the per-URL catch
Ocr_FailAborts(l) ==
  /\ loops[l].pc = "ocr"
  /\ UNCHANGED <<emitted, otherVars>>
  /\ \E ok \in BOOLEAN :
       /\ CallOutcome(ok)
       /\ IF ok
          THEN /\ loops' = [loops EXCEPT ![l] = [@ EXCEPT !.pc = AfterOcr(loops[l])]]
               /\ UNCHANGED errors
          ELSE UrlError(l)
  /\ UNCHANGED <<active, status, maxDepth, capturedScreenshots, sessionVars, db,
                 nloops, cmdVars>>

\* lines 200-206: processScreenshotWithOCR; a failure of the recognition
\* service is caught inside (lines 430-461: the result becomes empty text
\* with confidence 0 and the error) and the caller catches the rest (line
\* 203); the caller drops the result, and either way the pipeline goes on
Ocr(l) ==
  /\ loops[l].pc = "ocr"
  /\ UNCHANGED <<emitted, otherVars>>
  /\ \E ok \in BOOLEAN : CallOutcome(ok)
  /\ loops' = [loops EXCEPT ![l] = [@ EXCEPT !.pc = AfterOcr(loops[l])]]
  /\ UNCHANGED <<jobVars, sessionVars, db, nloops, cmdVars>>

\* lines 223-230: extractLinks, not caught before the per-URL catch
ExtractLinks(l) ==
  /\ loops[l].pc = "links"
  /\ UNCHANGED <<emitted, otherVars>>
  /\ \E ok \in BOOLEAN :
       /\ StageOutcome(l, ok)
       /\ IF ok
          THEN /\ loops' = [loops EXCEPT ![l] =
                    [@ EXCEPT !.pc = "update",
                              !.queue = PushLinks(@, Links(loops[l].url), loops[l].depth + 1)]]
               /\ UNCHANGED errors
          ELSE UrlError(l)
  /\ UNCHANGED <<active, status, maxDepth, capturedScreenshots, sessionVars, db,
                 nloops, cmdVars>>

\* lines 233-239: $push visitedUrls, $inc pagesProcessed; a failing update
\* is caught by the per-URL catch
UpdateDoc(l) ==
  /\ loops[l].pc = "update"
  /\ UNCHANGED <<emitted, otherVars>>
  /\ \E ok \in BOOLEAN :
       /\ CallOutcome(ok)
       /\ IF ok
          THEN /\ db' = [db EXCEPT !.visitedUrls = Push(@, loops[l].url),
                                   !.pagesProcessed = @ + 1]
               /\ loops' = [loops EXCEPT ![l] = [@ EXCEPT !.pc = "ai"]]
               /\ UNCHANGED errors
          ELSE /\ UrlError(l)
               /\ UNCHANGED db
  /\ UNCHANGED <<active, status, maxDepth, capturedScreenshots, sessionVars,
                 nloops, cmdVars>>

\* what the advisory service does when analyzePage asks it: it answers JSON
\* with a list of priority urls, the key is missing, the call fails, the text
\* holds no JSON object, or the JSON object has a priorityUrls that is no
\* list
AnalysisOutcomes ==
  [kind : {"answer"}, prio : PriorityAnswers]
    \cup [kind : {"noKey", "callError", "notJson", "wrongShape"}, prio : {<<>>}]

\* analyzePage, reduced to the priorityUrls of its result: without a key the
\* result has none (line 92); an error inside is caught and gives the default
\* with an empty list (lines 139-148); a parsed object is returned as it is
\* (lines 132-138), so a priorityUrls that has a length but cannot be
\* iterated reaches the caller
AnalyzePage(o) ==
  CASE o.kind = "answer" -> [length |-> Len(o.prio), iterable |-> TRUE, urls |-> o.prio]
    [] o.kind = "wrongShape" -> [length |-> 1, iterable |-> FALSE, urls |-> <<>>]
    [] OTHER -> [length |-> 0, iterable |-> TRUE, urls |-> <<>>]

\* lines 242-261: page.title() and aiAssistant.analyzePage; page.title()
\* throws on a closed page; analyzePage itself never throws, but the for-of
\* of line 255 over its priorityUrls does when they are not iterable, and
\* that is caught by the per-URL catch
Analyze(l) ==
  /\ loops[l].pc = "ai"
  /\ UNCHANGED <<emitted, otherVars>>
  /\ IF PageClosed(l)
     THEN UrlError(l) /\ UNCHANGED events
     ELSE \E o \in AnalysisOutcomes :
            LET s == AnalyzePage(o) IN
            /\ s.length > 0 => Spent < MaxEvents
            /\ events' = IF s.length > 0 THEN events + 1 ELSE events
            /\ IF s.length > 0 /\ ~s.iterable
               THEN UrlError(l)
               ELSE /\ loops' = [loops EXCEPT ![l] =
                         [@ EXCEPT !.pc = "delay",
                                   !.queue = UnshiftPriority(@, s.urls, loops[l].visited,
                                                             loops[l].depth + 1)]]
                    /\ UNCHANGED errors
  /\ UNCHANGED <<active, status, maxDepth, capturedScreenshots, sessionVars, db,
                 nloops, cmdVars>>

\* line 264: the rate-limit delay, then the loop head
RateLimit(l) ==
  /\ loops[l].pc = "delay"
  /\ UNCHANGED <<emitted, otherVars>>
  /\ loops' = [loops EXCEPT ![l] = LoopHead(@)]
  /\ UNCHANGED <<jobVars, sessionVars, db, nloops, cmdVars, events>>

\* lines 270-275: the error is pushed to the document, then the loop head;
\* a failing update here is inside no inner try and reaches the outer catch
ErrDb(l) ==
  /\ loops[l].pc = "err_db"
  /\ UNCHANGED <<emitted, otherVars>>
  /\ \E ok \in BOOLEAN :
       /\ CallOutcome(ok)
       /\ IF ok
          THEN /\ db' = [db EXCEPT !.errors = Push(@, loops[l].url)]
               /\ loops' = [loops EXCEPT ![l] = LoopHead(@)]
          ELSE /\ loops' = [loops EXCEPT ![l] =
                              [@ EXCEPT !.pc = "st_failed", !.failing = TRUE,
                                        !.queue = <<>>, !.url = "", !.depth = 0]]
               /\ UNCHANGED db
  /\ UNCHANGED <<jobVars, sessionVars, nloops, cmdVars>>

\* ------------------------------------------------------- updateCrawlStatus
\* socketManager.broadcastCrawlerUpdate: nothing is emitted while io is null
BroadcastCrawlerUpdate(by, st) ==
  IF io THEN emitted \cup {[by |-> by, status |-> st]} ELSE emitted

\* lines 497-510: the document gets the status; the in-memory entry gets it
\* only while the job is still in activeCrawls, with the error message if any;
\* lines 512-518: the status is broadcast
StatusWrite(st, withError) ==
  /\ emitted' = BroadcastCrawlerUpdate("updateCrawlStatus", st)
  /\ db' = [db EXCEPT !.status = st]
  /\ status' = IF active THEN st ELSE status
  /\ errors' = IF active /\ withError THEN Push(errors, "job") ELSE errors

\* line 280, then the finally block (line 288) calls cleanupCrawl
StatusCompleted(l) ==
  /\ loops[l].pc = "st_completed"
  /\ UNCHANGED otherVars
  /\ StatusWrite("completed", FALSE)
  /\ loops' = [loops EXCEPT ![l] = EnterCleanup(@)]
  /\ UNCHANGED <<active, maxDepth, capturedScreenshots, sessionVars, nloops,
                 cmdVars, events>>

\* lines 282-285, then the finally block
StatusFailed(l) ==
  /\ loops[l].pc = "st_failed"
  /\ UNCHANGED otherVars
  /\ StatusWrite("failed", TRUE)
  /\ loops' = [loops EXCEPT ![l] = EnterCleanup(@)]
  /\ UNCHANGED <<active, maxDepth, capturedScreenshots, sessionVars, nloops,
                 cmdVars, events>>

\* lines 123-126 and 687-690: the .catch of a rejected processCrawl
StatusFailedAgain(l) ==
  /\ loops[l].pc = "st_failed2"
  /\ UNCHANGED otherVars
  /\ StatusWrite("failed", TRUE)
  /\ loops' = [loops EXCEPT ![l] = [@ EXCEPT !.pc = "done"]]
  /\ UNCHANGED <<active, maxDepth, capturedScreenshots, sessionVars, nloops,
                 cmdVars, events>>

\* ------------------------------------------------------------ cleanupCrawl
\* lines 541-570, one awaited call per step: every page of crawlData.pages,
\* the context, the browser, the final statistics; then the entry is deleted
CleanupShared(r) ==
  /\ closedPages' = IF r.pc = "cl_pages" THEN closedPages \cup {pages[r.ci]}
                    ELSE closedPages
  /\ contextClosed' = (contextClosed \/ r.pc = "cl_context")
  /\ browserCloses' = IF r.pc = "cl_browser" THEN browserCloses + 1 ELSE browserCloses
  /\ db' = IF r.pc = "cl_db"
           THEN [db EXCEPT !.screenshotCount = r.cs, !.errorCount = r.ce]
           ELSE db
  /\ active' = IF r.pc = "cl_db" THEN FALSE ELSE active
  /\ UNCHANGED <<status, maxDepth, errors, capturedScreenshots, pages>>

CleanupNext(r) ==
  CASE r.pc = "cl_pages" ->
         IF r.ci < Len(pages) THEN [r EXCEPT !.ci = @ + 1]
         ELSE [r EXCEPT !.pc = "cl_context", !.ci = 0]
    [] r.pc = "cl_context" -> [r EXCEPT !.pc = "cl_browser"]
    [] r.pc = "cl_browser" ->
         [r EXCEPT !.pc = "cl_db", !.cs = Length(capturedScreenshots),
                   !.ce = Length(errors)]
    [] r.pc = "cl_db" -> [r EXCEPT !.pc = "ret", !.cs = 0, !.ce = 0]

\* the finally block of processCrawl (line 288)
LoopCleanup(l) ==
  /\ loops[l].pc \in CleanupPcs
  /\ UNCHANGED <<emitted, otherVars>>
  /\ CleanupShared(loops[l])
  /\ LET n == CleanupNext(loops[l]) IN
       loops' = [loops EXCEPT ![l] =
                   IF n.pc = "ret" THEN [n EXCEPT !.pc = AfterFinally(n)] ELSE n]
  /\ UNCHANGED <<nloops, cmdVars, events>>

\* ---------------------------------------------------------------- commands
\* PauseCrawl without the status test of line 641
PauseCrawl_AnyStatus ==
  /\ active
  /\ UNCHANGED <<emitted, otherVars>>
  /\ Spent < MaxEvents
  /\ status' = "paused"
  /\ npauses' = npauses + 1
  /\ pausePending' = pausePending + 1
  /\ UNCHANGED <<active, maxDepth, errors, capturedScreenshots, sessionVars, db,
                 loops, nloops, stops, nstops, resumePending, events>>

\* pauseCrawl, lines 639-646
PauseCrawl ==
  /\ active /\ status = "running"
  /\ UNCHANGED <<emitted, otherVars>>
  /\ Spent < MaxEvents
  /\ status' = "paused"
  /\ npauses' = npauses + 1
  /\ pausePending' = pausePending + 1
  /\ UNCHANGED <<active, maxDepth, errors, capturedScreenshots, sessionVars, db,
                 loops, nloops, stops, nstops, resumePending, events>>

\* pauseCrawl, lines 641-643: return false
PauseRejected ==
  /\ db.status # "none"
  /\ UNCHANGED <<emitted, otherVars>>
  /\ ~(active /\ status = "running")
  /\ UNCHANGED vars

\* pauseCrawl, lines 649-655
PauseDb ==
  /\ pausePending > 0
  /\ UNCHANGED <<emitted, otherVars>>
  /\ db' = [db EXCEPT !.status = "paused"]
  /\ pausePending' = pausePending - 1
  /\ UNCHANGED <<jobVars, sessionVars, loops, nloops, stops, nstops, npauses,
                 resumePending, events>>

\* resumeCrawl, lines 670-677
ResumeCrawl ==
  /\ active /\ status = "paused"
  /\ UNCHANGED <<emitted, otherVars>>
  /\ Spent < MaxEvents
  /\ status' = "running"
  /\ resumePending' = resumePending + 1
  /\ UNCHANGED <<active, maxDepth, errors, capturedScreenshots, sessionVars, db,
                 loops, nloops, stops, nstops, npauses, pausePending, events>>

\* resumeCrawl, lines 672-674: return false
ResumeRejected ==
  /\ db.status # "none"
  /\ UNCHANGED <<emitted, otherVars>>
  /\ ~(active /\ status = "paused")
  /\ UNCHANGED vars

\* resumeCrawl, lines 680-693: the document gets status running and
\* processCrawl is called again; it throws at once when the entry is gone
\* (lines 144-148), which runs the .catch
ResumeDb ==
  /\ resumePending > 0
  /\ UNCHANGED <<emitted, otherVars>>
  /\ db' = [db EXCEPT !.status = "running"]
  /\ resumePending' = resumePending - 1
  /\ nloops' = nloops + 1
  /\ loops' = [loops EXCEPT ![nloops + 1] =
                 IF active THEN NewLoop
                 ELSE [IdleLoop EXCEPT !.pc = "st_failed2", !.failing = TRUE]]
  /\ UNCHANGED <<jobVars, sessionVars, stops, nstops, npauses, pausePending,
                 events>>

\* stopCrawl answering true for a job that is not in activeCrawls
StopCrawl_SameResult ==
  /\ db.status # "none"
  /\ UNCHANGED <<emitted, otherVars>>
  /\ Spent < MaxEvents
  /\ nstops' = nstops + 1
  /\ IF active
     THEN /\ status' = "stopped"
          /\ stops' = [stops EXCEPT ![nstops + 1] = [@ EXCEPT !.pc = "db"]]
     ELSE /\ stops' = [stops EXCEPT ![nstops + 1] =
                         [@ EXCEPT !.pc = "done", !.res = "true"]]
          /\ UNCHANGED status
  /\ UNCHANGED <<active, maxDepth, errors, capturedScreenshots, sessionVars, db,
                 loops, nloops, npauses, pausePending, resumePending, events>>

\* stopCrawl, lines 708-715
StopCrawl ==
  /\ db.status # "none"
  /\ UNCHANGED <<emitted, otherVars>>
  /\ Spent < MaxEvents
  /\ nstops' = nstops + 1
  /\ IF active
     THEN /\ status' = "stopped"
          /\ stops' = [stops EXCEPT ![nstops + 1] = [@ EXCEPT !.pc = "db"]]
     ELSE /\ stops' = [stops EXCEPT ![nstops + 1] =
                         [@ EXCEPT !.pc = "done", !.res = "false"]]
          /\ UNCHANGED status
  /\ UNCHANGED <<active, maxDepth, errors, capturedScreenshots, sessionVars, db,
                 loops, nloops, npauses, pausePending, resumePending, events>>

\* stopCrawl, lines 718-724: the document gets status stopped, cleanupCrawl
\* is entered
StopDb(s) ==
  /\ stops[s].pc = "db"
  /\ UNCHANGED <<emitted, otherVars>>
  /\ db' = [db EXCEPT !.status = "stopped"]
  /\ stops' = [stops EXCEPT ![s] =
                 IF CleanupEntry = "ret"
                 THEN [@ EXCEPT !.pc = "done", !.res = "true"]
                 ELSE [@ EXCEPT !.pc = CleanupEntry,
                                !.ci = IF CleanupEntry = "cl_pages" THEN 1 ELSE 0]]
  /\ UNCHANGED <<jobVars, sessionVars, loops, nloops, nstops, npauses,
                 pausePending, resumePending, events>>

\* stopCrawl, lines 724-727: cleanupCrawl, then return true
StopCleanup(s) ==
  /\ stops[s].pc \in CleanupPcs
  /\ UNCHANGED <<emitted, otherVars>>
  /\ CleanupShared(stops[s])
  /\ LET n == CleanupNext(stops[s]) IN
       stops' = [stops EXCEPT ![s] =
                   IF n.pc = "ret" THEN [n EXCEPT !.pc = "done", !.res = "true"]
                   ELSE n]
  /\ UNCHANGED <<loops, nloops, nstops, npauses, pausePending, resumePending,
                 events>>

Next ==
  \/ \E d \in 1..MaxDepthBound : StartCrawl(d)
  \/ \E l \in LoopIds :
       \/ NewPage(l) \/ Goto(l) \/ Scroll(l) \/ Shot(l) \/ Ocr(l)
       \/ ExtractLinks(l) \/ UpdateDoc(l) \/ Analyze(l) \/ RateLimit(l)
       \/ ErrDb(l) \/ StatusCompleted(l) \/ StatusFailed(l)
       \/ StatusFailedAgain(l) \/ LoopCleanup(l)
  \/ PauseCrawl \/ PauseRejected \/ PauseDb
  \/ ResumeCrawl \/ ResumeRejected \/ ResumeDb
  \/ StopCrawl
  \/ \E s \in StopIds : StopDb(s) \/ StopCleanup(s)

Spec == Init /\ [][Next]_vars

\* ----------------------------------------------- the start of a crawl job
StartInit ==
  /\ NoJob
  /\ io = FALSE
  /\ request \in Requests
  /\ scroll = None
  /\ logs = None
  /\ jobs = None
  /\ startup = None
  /\ ocr = None
  /\ frontier = None

\* the route POST /crawler/start runs validateCrawlRequest first
ValidateCrawlRequest ==
  /\ request.stage = "received"
  /\ request' = [request EXCEPT !.stage =
                   IF ValidCrawlRequest(request) THEN "validated" ELSE "rejected"]
  /\ UNCHANGED <<crawlVars, io, scroll, logs, jobs, frontier, ocr, startup, emitted>>

\* then the controller: the strategy planned by the advisory service only
\* changes options of the crawl, and the job is started with
\* "parseInt(depth) || 2"
StartCrawlController ==
  /\ request.stage = "validated"
  /\ StartCrawl(DepthOrDefault(request.depth))

StartNext == ValidateCrawlRequest \/ StartCrawlController

StartSpec == StartInit /\ [][StartNext]_vars

\* ------------------------------------------------------ jobs side by side
\* every handler is one step here: what is observed is which job's state a
\* call with a given crawlId reads and writes
JobsInit ==
  /\ NoJob
  /\ io = FALSE
  /\ request = None
  /\ scroll = None
  /\ logs = None
  /\ jobs = NoJobs
  /\ startup = None
  /\ ocr = None
  /\ frontier = None

\* startCrawl(crawlId, url, depth), lines 44-133
JobStart(j) ==
  /\ jobs.doc[j].status = "none"
  /\ LET b == Launch(jobs) IN
       jobs' = [jobs EXCEPT
                  !.doc[j] = [NoJobDoc EXCEPT !.status = "running"],
                  !.browsers[b] = [NoBrowser EXCEPT !.launchedBy = j, !.open = TRUE],
                  !.launched = @ + 1,
                  !.entry[j] = [NoEntry EXCEPT !.active = TRUE, !.status = "running",
                                               !.browser = b, !.depth = 1],
                  !.proc[j] = <<NewProc>>,
                  !.last = j]
  /\ UNCHANGED <<crawlVars, io, request, scroll, logs, frontier, ocr, startup, emitted>>

\* one turn of the while loop of processCrawl (lines 168-277) for the job:
\* the loop ends when the status of the entry is not running or nothing is
\* left; otherwise the next url is processed on the browser of the entry,
\* which fails when that browser is closed and may fail anyway
JobProcessUrl(j, i) ==
  /\ i \in DOMAIN jobs.proc[j]
  /\ jobs.proc[j][i].pc = "run"
  /\ LET e == jobs.entry[j]
         r == jobs.proc[j][i]
         q == JobSkip(r.queue, r.visited, e.depth)
     IN IF e.status # "running" \/ q = <<>>
        THEN jobs' = [jobs EXCEPT !.proc[j][i] = [r EXCEPT !.pc = "ending", !.queue = <<>>],
                                  !.last = j]
        ELSE \E ok \in BOOLEAN :
               /\ ok => jobs.browsers[e.browser].open
               /\ jobs' = [jobs EXCEPT
                    !.browsers[e.browser].usedBy = @ \cup {j},
                    !.proc[j][i] =
                       [r EXCEPT !.visited = @ \cup {Head(q).url},
                                 !.queue = IF ok /\ Head(q).depth < e.depth
                                           THEN PushLinks(Tail(q), Links(Head(q).url),
                                                          Head(q).depth + 1)
                                           ELSE Tail(q)],
                    !.doc[j].pagesProcessed = IF ok THEN @ + 1 ELSE @,
                    !.doc[j].errors = IF ok THEN @ ELSE @ + 1,
                    !.entry[j].errors = IF ok THEN @ ELSE @ + 1,
                    !.last = j]
  /\ UNCHANGED <<crawlVars, io, request, scroll, logs, frontier, ocr, startup, emitted>>

\* lines 280 and 288: updateCrawlStatus('completed'), then cleanupCrawl
JobEnd(j, i) ==
  /\ i \in DOMAIN jobs.proc[j]
  /\ jobs.proc[j][i].pc = "ending"
  /\ jobs' = [JobCleanup(JobStatus(jobs, j, "completed"), j) EXCEPT
                !.proc[j][i].pc = "done", !.last = j]
  /\ UNCHANGED <<crawlVars, io, request, scroll, logs, frontier, ocr, startup, emitted>>

\* lines 282-288: a failure outside the per-URL try ends the invocation with
\* updateCrawlStatus('failed'), then cleanupCrawl
JobFatal(j, i) ==
  /\ i \in DOMAIN jobs.proc[j]
  /\ jobs.proc[j][i].pc = "run"
  /\ jobs' = [JobCleanup(JobStatus(jobs, j, "failed"), j) EXCEPT
                !.proc[j][i] = [@ EXCEPT !.pc = "done", !.queue = <<>>], !.last = j]
  /\ UNCHANGED <<crawlVars, io, request, scroll, logs, frontier, ocr, startup, emitted>>

\* pauseCrawl(crawlId), lines 637-660
JobPause(j) ==
  /\ jobs.commands < MaxJobCommands
  /\ jobs.entry[j].active /\ jobs.entry[j].status = "running"
  /\ jobs' = [jobs EXCEPT !.entry[j].status = "paused", !.doc[j].status = "paused",
                          !.commands = @ + 1, !.last = j]
  /\ UNCHANGED <<crawlVars, io, request, scroll, logs, frontier, ocr, startup, emitted>>

\* resumeCrawl(crawlId), lines 668-698: processCrawl is called again
JobResume(j) ==
  /\ jobs.commands < MaxJobCommands
  /\ jobs.entry[j].active /\ jobs.entry[j].status = "paused"
  /\ jobs' = [jobs EXCEPT !.entry[j].status = "running", !.doc[j].status = "running",
                          !.proc[j] = Append(@, NewProc),
                          !.commands = @ + 1, !.last = j]
  /\ UNCHANGED <<crawlVars, io, request, scroll, logs, frontier, ocr, startup, emitted>>

\* stopCrawl(crawlId), lines 706-732
JobStop(j) ==
  /\ jobs.commands < MaxJobCommands
  /\ jobs.entry[j].active
  /\ jobs' = [JobCleanup([jobs EXCEPT !.entry[j].status = "stopped",
                                      !.doc[j].status = "stopped"], j)
                EXCEPT !.commands = @ + 1, !.last = j]
  /\ UNCHANGED <<crawlVars, io, request, scroll, logs, frontier, ocr, startup, emitted>>

JobsNext ==
  \E j \in JobIds :
    \/ JobStart(j) \/ JobPause(j) \/ JobResume(j) \/ JobStop(j)
    \/ \E i \in 1..(1 + MaxJobCommands \div 2) :
         JobProcessUrl(j, i) \/ JobEnd(j, i) \/ JobFatal(j, i)

JobsSpec == JobsInit /\ [][JobsNext]_vars

\* ------------------------------------------------------ the logs of a job
LogsInit ==
  /\ NoJob
  /\ io = FALSE
  /\ request = None
  /\ scroll = None
  /\ logs \in {[NoLogs EXCEPT !.pc = "received", !.found = f, !.doc = d,
                               !.limitQuery = l, !.offsetQuery = o] :
                  f \in BOOLEAN, d \in LogDocs, l \in QueryValues,
                  o \in QueryValues}
  /\ jobs = None
  /\ startup = None
  /\ ocr = None
  /\ frontier = None

\* the controller, lines 314-315: the arguments of the service call
GetCrawlLogsArguments ==
  /\ logs.pc = "received"
  /\ logs' = [logs EXCEPT !.pc = "called",
                          !.limit = QueryOrDefault(logs.limitQuery, DefaultLimit),
                          !.offset = QueryOrDefault(logs.offsetQuery, 0)]
  /\ UNCHANGED <<crawlVars, io, request, scroll, jobs, frontier, ocr, startup, emitted>>

\* the service call and the answer: 404 when getCrawlLogs returns null (no
\* document has the id), else 200 with the page of entries
GetCrawlLogsAnswer ==
  /\ logs.pc = "called"
  /\ logs' = IF ~logs.found
             THEN [logs EXCEPT !.pc = "answered", !.answer = 404]
             ELSE [logs EXCEPT !.pc = "answered", !.answer = 200,
                     !.result = GetCrawlLogs(logs.doc, logs.limit, logs.offset)]
  /\ UNCHANGED <<crawlVars, io, request, scroll, jobs, frontier, ocr, startup, emitted>>

LogsNext == GetCrawlLogsArguments \/ GetCrawlLogsAnswer

LogsSpec == LogsInit /\ [][LogsNext]_vars

\* ------------------------------------------------- the scroll detector
ScrollInit ==
  /\ NoJob
  /\ io = FALSE
  /\ request = None
  /\ scroll \in {ScrollStart(o, h, n) :
                   o \in 0..MaxScrollOption, h \in 0..1, n \in 0..MaxLoads}
  /\ logs = None
  /\ jobs = None
  /\ startup = None
  /\ ocr = None
  /\ frontier = None

\* a call on the page throws (the page was closed, the evaluation failed):
\* handleInfiniteScroll catches nothing, so the call of line 191 throws
ScrollThrows(call) == [scroll EXCEPT !.pc = "threw", !.lastCall = call]

\* the while test of line 309 after scrollCount++; the time limit cannot have
\* passed before the first wait
ScrollLoopTest(r, inTime) ==
  IF r.scrollCount < r.maxScrolls /\ inTime
  THEN [r EXCEPT !.pc = "measure"] ELSE [r EXCEPT !.pc = "top"]

\* ScrollMeasure without the test of line 314
ScrollMeasure_NoEqualTest ==
  /\ scroll.pc = "measure"
  /\ \E ok \in BOOLEAN :
       scroll' = IF ~ok THEN ScrollThrows("measure")
                 ELSE [scroll EXCEPT !.currentHeight = scroll.height,
                                     !.measured = Append(@, scroll.height),
                                     !.lastCall = "measure",
                                     !.pc = "bottom"]
  /\ UNCHANGED <<crawlVars, io, request, logs, jobs, frontier, ocr, startup, emitted>>

\* lines 311-317: document.body.scrollHeight is measured; a height equal to
\* the previous one ends the loop
ScrollMeasure ==
  /\ scroll.pc = "measure"
  /\ \E ok \in BOOLEAN :
       scroll' = IF ~ok THEN ScrollThrows("measure")
                 ELSE [scroll EXCEPT !.currentHeight = scroll.height,
                                     !.measured = Append(@, scroll.height),
                                     !.lastCall = "measure",
                                     !.pc = IF scroll.height = scroll.previousHeight
                                            THEN "top" ELSE "bottom"]
  /\ UNCHANGED <<crawlVars, io, request, logs, jobs, frontier, ocr, startup, emitted>>

\* line 320: window.scrollTo(0, document.body.scrollHeight)
ScrollToBottom ==
  /\ scroll.pc = "bottom"
  /\ \E ok \in BOOLEAN :
       scroll' = IF ~ok THEN ScrollThrows("bottom")
                 ELSE [scroll EXCEPT !.scrolled = @ + 1, !.lastCall = "bottom",
                                     !.pc = "wait"]
  /\ UNCHANGED <<crawlVars, io, request, logs, jobs, frontier, ocr, startup, emitted>>

\* lines 323-327: page.waitForTimeout(1000), during which the page may load
\* more content; then the locals are updated and the loop test follows
ScrollWait ==
  /\ scroll.pc = "wait"
  /\ \E ok \in BOOLEAN, grows \in BOOLEAN, inTime \in BOOLEAN :
       /\ grows => scroll.loads > 0
       /\ scroll' =
            IF ~ok THEN ScrollThrows("wait")
            ELSE ScrollLoopTest(
                   [scroll EXCEPT !.height = IF grows THEN @ + 1 ELSE @,
                                  !.loads = IF grows THEN @ - 1 ELSE @,
                                  !.previousHeight = scroll.currentHeight,
                                  !.scrollCount = @ + 1,
                                  !.lastCall = "wait"], inTime)
  /\ UNCHANGED <<crawlVars, io, request, logs, jobs, frontier, ocr, startup, emitted>>

\* line 333: window.scrollTo(0, 0), after the loop
ScrollToTop ==
  /\ scroll.pc = "top"
  /\ \E ok \in BOOLEAN :
       scroll' = IF ~ok THEN ScrollThrows("top")
                 ELSE [scroll EXCEPT !.lastCall = "top", !.pc = "returned"]
  /\ UNCHANGED <<crawlVars, io, request, logs, jobs, frontier, ocr, startup, emitted>>

ScrollNext == ScrollMeasure \/ ScrollToBottom \/ ScrollWait \/ ScrollToTop

ScrollSpec == ScrollInit /\ [][ScrollNext]_vars

\* ------------------------------------------------- with a socket server
\* setupSocketHandlers(io) has been called, as the entry point does at startup
SocketInit ==
  /\ NoJob
  /\ io = TRUE
  /\ request = None
  /\ scroll = None
  /\ logs = None
  /\ jobs = None
  /\ startup = None
  /\ ocr = None
  /\ frontier = None

\* monitorCrawlProgress of the controller, one tick of its interval: the
\* status snapshot of the job is broadcast; the interval is cleared once the
\* snapshot it broadcast holds a terminal status
MonitorCrawlProgress ==
  /\ GetCrawlStatus.found
  /\ \A e \in emitted : e.by = "monitorCrawlProgress" => e.status \notin Terminal
  /\ emitted' = BroadcastCrawlerUpdate("monitorCrawlProgress", GetCrawlStatus.status)
  /\ emitted' # emitted
  /\ UNCHANGED <<jobVars, sessionVars, db, loops, nloops, cmdVars, events, otherVars>>

SocketNext ==
  \/ \E d \in 1..MaxDepthBound : StartCrawl(d)
  \/ \E l \in LoopIds :
       \/ NewPage(l) \/ Goto(l) \/ Scroll(l) \/ Shot(l) \/ Ocr(l)
       \/ ExtractLinks(l) \/ UpdateDoc(l) \/ Analyze(l) \/ RateLimit(l)
       \/ ErrDb(l) \/ StatusCompleted(l) \/ StatusFailed(l)
       \/ StatusFailedAgain(l) \/ LoopCleanup(l)
  \/ PauseCrawl \/ PauseRejected \/ PauseDb
  \/ ResumeCrawl \/ ResumeRejected \/ ResumeDb
  \/ StopCrawl
  \/ \E s \in StopIds : StopDb(s) \/ StopCleanup(s)
  \/ MonitorCrawlProgress

SocketSpec == SocketInit /\ [][SocketNext]_vars

\* ------------------------------------------- crawls without priority urls
\* the analysis step of a crawl whose advisory service suggests nothing: the
\* result of analyzePage has no priority url (an empty list, a missing key,
\* a failed call)
AnalyzeNoPriority(l) == Analyze(l) /\ events' = events

NoPriorityNext ==
  \/ \E d \in 1..MaxDepthBound : StartCrawl(d)
  \/ \E l \in LoopIds :
       \/ NewPage(l) \/ Goto(l) \/ Scroll(l) \/ Shot(l) \/ Ocr(l)
       \/ ExtractLinks(l) \/ UpdateDoc(l) \/ AnalyzeNoPriority(l) \/ RateLimit(l)
       \/ ErrDb(l) \/ StatusCompleted(l) \/ StatusFailed(l)
       \/ StatusFailedAgain(l) \/ LoopCleanup(l)
  \/ PauseCrawl \/ PauseRejected \/ PauseDb
  \/ ResumeCrawl \/ ResumeRejected \/ ResumeDb
  \/ StopCrawl
  \/ \E s \in StopIds : StopDb(s) \/ StopCleanup(s)

NoPrioritySpec == Init /\ [][NoPriorityNext]_vars

\* ------------------------------------------------- the priority insertion
\* what a urlQueue can hold while the page of depth d is analysed: entries
\* of the level of the page and of the level below it
QueueEntries(d) == [url : Urls, depth : {d, d + 1}]

\* lines 243-252 reached for a page: its url is in visitedUrls, the queue
\* holds what earlier pages and this one left, the advisory service has
\* answered with a list
FrontierStart(m, d, q, v, p) ==
  [pc |-> "analyzed", maxDepth |-> m, depth |-> d, queue |-> q, visited |-> v,
   priorityUrls |-> p, before |-> q, taken |-> <<>>]

PriorityInit ==
  /\ NoJob
  /\ io = FALSE
  /\ request = None
  /\ scroll = None
  /\ logs = None
  /\ jobs = None
  /\ startup = None
  /\ ocr = None
  /\ \E m \in 1..MaxDepthBound, d \in 0..1 :
       \E q \in UNION {[1..n -> QueueEntries(d)] : n \in 0..MaxQueued},
          v \in (SUBSET Urls) \ {{}},
          p \in UNION {[1..n -> Urls] : n \in 0..MaxSuggested} :
         frontier = FrontierStart(m, d, q, v, p)

\* lines 253-260: the for-of over the priority urls, each one not yet visited
\* unshifted
EnqueuePriority ==
  /\ frontier.pc = "analyzed"
  /\ frontier' = [frontier EXCEPT
                    !.pc = "queued",
                    !.queue = UnshiftPriority(@, frontier.priorityUrls,
                                              frontier.visited, frontier.depth + 1)]
  /\ UNCHANGED <<crawlVars, io, request, scroll, logs, jobs, ocr, startup, emitted>>

\* lines 168-175, one turn of the while loop: the head of the queue is
\* shifted; it is skipped when visited or too deep, else marked visited and
\* processed
ShiftNext ==
  /\ frontier.pc = "queued"
  /\ frontier.queue # <<>>
  /\ LET e == Head(frontier.queue)
         skip == e.url \in frontier.visited \/ e.depth > frontier.maxDepth
     IN frontier' = [frontier EXCEPT
                       !.queue = Tail(@),
                       !.visited = IF skip THEN @ ELSE @ \cup {e.url},
                       !.taken = IF skip THEN @ ELSE Append(@, e)]
  /\ UNCHANGED <<crawlVars, io, request, scroll, logs, jobs, ocr, startup, emitted>>

PriorityNext == EnqueuePriority \/ ShiftNext

PrioritySpec == PriorityInit /\ [][PriorityNext]_vars

\* ------------------------------------------------- the confidence score
\* the characters of a recognized text: a letter, one of the glyphs of the
\* pattern of line 262, white space
Letter == "x"
Glyph == "?"
Space == " "

\* a text: a word of k letters and g glyphs followed by s spaces, n times
\* (without spaces the repetitions run together into one word)
Repeat(k, g, s, n) ==
  [i \in 1..(n * (k + g + s)) |->
     LET j == ((i - 1) % (k + g + s)) + 1 IN
     IF j <= k THEN Letter ELSE IF j <= k + g THEN Glyph ELSE Space]

\* text.trim().length === 0
Blank(text) == \A i \in 1..Len(text) : text[i] = Space

\* text.split(/\s+/) for the characters lo..hi of the text, each piece given
\* by its length: a run of white space separates two pieces, so that a text
\* which begins or ends with white space has an empty piece there.  The
\* pieces of a text are those of its two halves, the last piece of the first
\* half and the first piece of the second being one piece, or, where white
\* space meets white space, one separator
RECURSIVE Split(_, _, _)
Split(text, lo, hi) ==
  IF lo > hi THEN <<0>>
  ELSE IF lo = hi THEN (IF text[lo] = Space THEN <<0, 0>> ELSE <<1>>)
  ELSE LET mid == (lo + hi) \div 2
           a == Split(text, lo, mid)
           b == Split(text, mid + 1, hi)
       IN IF text[mid] = Space /\ text[mid + 1] = Space
          THEN SubSeq(a, 1, Len(a) - 1) \o Tail(b)
          ELSE SubSeq(a, 1, Len(a) - 1) \o <<a[Len(a)] + Head(b)>> \o Tail(b)

\* line 255: the pieces that are not empty
Words(text) ==
  LET NotEmpty(w) == w > 0 IN SelectSeq(Split(text, 1, Len(text)), NotEmpty)

\* words.reduce((sum, word) => sum + word.length, 0)
RECURSIVE SumOf(_)
SumOf(ws) == IF ws = <<>> THEN 0 ELSE Head(ws) + SumOf(Tail(ws))

\* text.match(/[?#~|{}\[\]]/g), by its length
ErrorChars(text) == Cardinality({i \in 1..Len(text) : text[i] = Glyph})

\* scores are computed in ten-thousandths
Unit == 10000

\* Math.log10 of 1 .. 60, in ten-thousandths
Log10 ==
  <<0, 3010, 4771, 6021, 6990, 7782, 8451, 9031, 9542, 10000,
    10414, 10792, 11139, 11461, 11761, 12041, 12304, 12553, 12788, 13010,
    13222, 13424, 13617, 13802, 13979, 14150, 14314, 14472, 14624, 14771,
    14914, 15051, 15185, 15315, 15441, 15563, 15682, 15798, 15911, 16021,
    16128, 16232, 16335, 16435, 16532, 16628, 16721, 16812, 16902, 16990,
    17076, 17160, 17243, 17324, 17404, 17482, 17559, 17634, 17709, 17782>>

Min(a, b) == IF a < b THEN a ELSE b
Max(a, b) == IF a > b THEN a ELSE b

\* Math.round of a number of ten-thousandths: the nearest integer, halves up
Round(x) == (x + Unit \div 2) \div Unit

\* ErrorPenalty with the glyphs counted against the characters of the words
ErrorPenalty_OfWordChars(text) ==
  (50 * ErrorChars(text) * Unit) \div SumOf(Words(text))

\* lines 262-263 and 272: errorRatio * 50, the ratio being taken over the
\* whole text, white space included
ErrorPenalty(text) == (50 * ErrorChars(text) * Unit) \div Len(text)

\* calculateConfidence, lines 249-276
CalculateConfidence(text) ==
  IF Len(text) = 0 \/ Blank(text) THEN 0
  ELSE LET words == Words(text)
           wordCount == Len(words)
           avgWordLength2 == (2 * SumOf(words) * Unit) \div Max(1, wordCount)
           base == Min(100 * Unit, 40 * Unit + 30 * Log10[Max(1, wordCount)])
           confidence == base + Min(20 * Unit, avgWordLength2) - ErrorPenalty(text)
       IN Max(0, Min(100, Round(confidence)))

OcrInit ==
  /\ NoJob
  /\ io = FALSE
  /\ request = None
  /\ scroll = None
  /\ logs = None
  /\ jobs = None
  /\ startup = None
  /\ frontier = None
  /\ \E k \in 0..MaxLetters, g \in 0..MaxGlyphs, s \in 0..MaxSpaces,
        n \in 0..MaxWords :
       ocr = [pc |-> "called", text |-> Repeat(k, g, s, n), confidence |-> 0]

\* line 123: const confidence = calculateConfidence(text)
Confidence ==
  /\ ocr.pc = "called"
  /\ ocr' = [ocr EXCEPT !.pc = "returned",
                        !.confidence = CalculateConfidence(ocr.text)]
  /\ UNCHANGED <<crawlVars, io, request, scroll, logs, jobs, frontier, startup, emitted>>

OcrNext == Confidence

OcrSpec == OcrInit /\ [][OcrNext]_vars

\* ------------------------------------------- with failing durable writes
\* the crawl job when the writes to its document outside the per-URL try can
\* fail as well.  Each of these failures is counted with the events.

\* updateCrawlStatus, lines 488-497 and 525-527: CrawlJob.findById or
\* CrawlJob.updateOne throws; the catch logs it, so neither the document nor
\* the activeCrawls entry gets the status and nothing is broadcast; the
\* caller goes on as after a status that was written
StatusNotWritten(l) ==
  /\ loops[l].pc \in {"st_completed", "st_failed", "st_failed2"}
  /\ Spent < MaxEvents
  /\ events' = events + 1
  /\ loops' = [loops EXCEPT ![l] =
                 IF @.pc = "st_failed2" THEN [@ EXCEPT !.pc = "done"]
                 ELSE EnterCleanup(@)]
  /\ UNCHANGED <<jobVars, sessionVars, db, nloops, cmdVars, emitted, otherVars>>

\* cleanupCrawl, lines 560-576: the update with the final statistics throws;
\* the catch logs it and activeCrawls.delete (line 570) is not reached
LoopCleanupNotWritten(l) ==
  /\ loops[l].pc = "cl_db"
  /\ Spent < MaxEvents
  /\ events' = events + 1
  /\ loops' = [loops EXCEPT ![l] =
                 [@ EXCEPT !.pc = AfterFinally(loops[l]), !.cs = 0, !.ce = 0]]
  /\ UNCHANGED <<jobVars, sessionVars, db, nloops, cmdVars, emitted, otherVars>>

\* the same in the cleanupCrawl of stopCrawl, which then returns true
StopCleanupNotWritten(s) ==
  /\ stops[s].pc = "cl_db"
  /\ Spent < MaxEvents
  /\ events' = events + 1
  /\ stops' = [stops EXCEPT ![s] =
                 [@ EXCEPT !.pc = "done", !.res = "true", !.cs = 0, !.ce = 0]]
  /\ UNCHANGED <<jobVars, sessionVars, db, loops, nloops, nstops, npauses,
                 pausePending, resumePending, emitted, otherVars>>

\* pauseCrawl, lines 649-658: the update throws and pauseCrawl rethrows; the
\* entry keeps the status paused
PauseDbFails ==
  /\ pausePending > 0
  /\ Spent < MaxEvents
  /\ events' = events + 1
  /\ pausePending' = pausePending - 1
  /\ UNCHANGED <<jobVars, sessionVars, db, loops, nloops, stops, nstops, npauses,
                 resumePending, emitted, otherVars>>

\* resumeCrawl, lines 680-696: the update throws and resumeCrawl rethrows
\* before processCrawl is called; the entry keeps the status running.  The
\* resume is then counted with the events rather than with the commands
ResumeDbFails ==
  /\ resumePending > 0
  /\ events' = events + 1
  /\ resumePending' = resumePending - 1
  /\ UNCHANGED <<jobVars, sessionVars, db, loops, nloops, stops, nstops, npauses,
                 pausePending, emitted, otherVars>>

\* stopCrawl, lines 718-730: the update throws and stopCrawl rethrows before
\* cleanupCrawl is called; the entry keeps the status stopped
StopDbFails(s) ==
  /\ stops[s].pc = "db"
  /\ Spent < MaxEvents
  /\ events' = events + 1
  /\ stops' = [stops EXCEPT ![s] = [@ EXCEPT !.pc = "done", !.res = "threw"]]
  /\ UNCHANGED <<jobVars, sessionVars, db, loops, nloops, nstops, npauses,
                 pausePending, resumePending, emitted, otherVars>>

\* the steps of processCrawl invocation l, of stopCrawl call s
LoopStep(l) ==
  \/ NewPage(l) \/ Goto(l) \/ Scroll(l) \/ Shot(l) \/ Ocr(l)
  \/ ExtractLinks(l) \/ UpdateDoc(l) \/ Analyze(l) \/ RateLimit(l)
  \/ ErrDb(l) \/ StatusCompleted(l) \/ StatusFailed(l)
  \/ StatusFailedAgain(l) \/ LoopCleanup(l)
  \/ StatusNotWritten(l) \/ LoopCleanupNotWritten(l)

StopStep(s) ==
  \/ StopDb(s) \/ StopCleanup(s) \/ StopCleanupNotWritten(s) \/ StopDbFails(s)

WritesNext ==
  \/ \E d \in 1..MaxDepthBound : StartCrawl(d)
  \/ \E l \in LoopIds : LoopStep(l)
  \/ PauseCrawl \/ PauseRejected \/ PauseDb \/ PauseDbFails
  \/ ResumeCrawl \/ ResumeRejected \/ ResumeDb \/ ResumeDbFails
  \/ StopCrawl
  \/ \E s \in StopIds : StopStep(s)

WritesSpec == Init /\ [][WritesNext]_vars

\* every call that has been made returns or throws: a processCrawl invocation
\* goes on to its next await, a command finishes its update and its cleanup.
\* Whether and when commands are issued is not constrained
FairSpec ==
  /\ Init /\ [][WritesNext]_vars
  /\ \A l \in LoopIds : WF_vars(LoopStep(l))
  /\ \A s \in StopIds : WF_vars(StopStep(s))
  /\ WF_vars(PauseDb \/ PauseDbFails)
  /\ WF_vars(ResumeDb \/ ResumeDbFails)

\* ------------------------------------------------- startCrawl step by step
\* startCrawl has been called by the controller with a new crawlId
StartupInit ==
  /\ NoJob
  /\ io = FALSE
  /\ request = None
  /\ scroll = None
  /\ logs = None
  /\ jobs = None
  /\ ocr = None
  /\ frontier = None
  /\ startup = [pc |-> "save", browser |-> "none", depth |-> 0]

\* startCrawl throws (lines 129-132, the catch logs and rethrows) and the
\* controller answers 500 (lines 94-101); neither touches the job
StartThrows == [startup EXCEPT !.pc = "threw"]

\* lines 48-61: the screenshot directory is made and the document is saved
\* with status running
StartSave ==
  /\ startup.pc = "save"
  /\ \E ok \in BOOLEAN, d \in 1..MaxDepthBound :
       IF ok
       THEN /\ db' = [db EXCEPT !.status = "running"]
            /\ startup' = [startup EXCEPT !.pc = "launch", !.depth = d]
       ELSE /\ startup' = StartThrows
            /\ UNCHANGED db
  /\ UNCHANGED <<jobVars, sessionVars, loops, nloops, cmdVars, events, io,
                 request, scroll, logs, jobs, ocr, frontier, emitted>>

\* line 81: chromium.launch
StartLaunch ==
  /\ startup.pc = "launch"
  /\ \E ok \in BOOLEAN :
       startup' = IF ok THEN [startup EXCEPT !.pc = "context", !.browser = "open"]
                ELSE StartThrows
  /\ UNCHANGED <<crawlVars, io, request, scroll, logs, jobs, ocr, frontier, emitted>>

\* lines 84-88: browser.newContext
StartNewContext ==
  /\ startup.pc = "context"
  /\ \E ok \in BOOLEAN :
       startup' = IF ok THEN [startup EXCEPT !.pc = "store"] ELSE StartThrows
  /\ UNCHANGED <<crawlVars, io, request, scroll, logs, jobs, ocr, frontier, emitted>>

\* lines 107-128: the entry is stored in activeCrawls with the browser,
\* processCrawl is called and startCrawl returns
StartStore ==
  /\ startup.pc = "store"
  /\ startup' = [startup EXCEPT !.pc = "returned", !.browser = "entry"]
  /\ active' = TRUE
  /\ status' = "running"
  /\ maxDepth' = startup.depth
  /\ loops' = [loops EXCEPT ![1] = NewLoop]
  /\ nloops' = 1
  /\ UNCHANGED <<errors, capturedScreenshots, sessionVars, db, cmdVars, events,
                 io, request, scroll, logs, jobs, ocr, frontier, emitted>>

\* a command can name the job only once startCrawl has returned its crawlId
StartupNext ==
  \/ StartSave \/ StartLaunch \/ StartNewContext \/ StartStore
  \/ /\ startup.pc = "returned"
     /\ \/ \E l \in LoopIds : LoopStep(l)
        \/ PauseCrawl \/ PauseRejected \/ PauseDb \/ PauseDbFails
        \/ ResumeCrawl \/ ResumeRejected \/ ResumeDb \/ ResumeDbFails
        \/ StopCrawl
        \/ \E s \in StopIds : StopStep(s)

StartupSpec == StartupInit /\ [][StartupNext]_vars

\* ================================================================== claims

\* how many times the frontier has yielded u for processing: a loop marks u
\* visited exactly when it takes u from its queue (lines 169-175)
YieldCount(u) == Cardinality({l \in LoopIds : u \in loops[l].visited})

QueueSet(q) == {q[i] : i \in 1..Len(q)}

\* C1: within one crawl job no URL is yielded by the frontier for processing
\* more than once, whatever pause, resume and stop commands are interleaved
\* with the crawl loop.
CE_C1_NoUrlYieldedTwice == \A u \in Urls : YieldCount(u) <= 1

\* C2: when resume() succeeds after a pause(), crawling goes on from the
\* existing frontier and visited set (set-equal to what the job had, not
\* re-seeded from the root) and the pair leaves pagesProcessed alone.
CE_C2_ResumeKeepsFrontier ==
  [][\A l \in LoopIds \ {1} :
       (loops[l].pc = "idle" /\ loops'[l].pc = "newPage") =>
         /\ QueueSet(loops'[l].queue) = QueueSet(loops[l - 1].queue)
         /\ loops'[l].visited = loops[l - 1].visited
         /\ db'.pagesProcessed = db.pagesProcessed]_vars

\* C3, as claimed: stop() is idempotent: once a stop() on an active job has
\* returned success, every stop() call that returns gives the same successful
\* result.
CE_C3_StopIdempotent ==
  stops[1].res = "true" =>
    \A s \in StopIds : stops[s].pc = "done" => stops[s].res = "true"

\* C3: a stop() on a job in the active table sets its status to stopped;
\* every stop() issued once the job has left the active table raises no
\* error, changes nothing of the job and returns false (job not found), also
\* after a stop() that returned success.
T_C3_StopThenNotFound ==
  [][/\ (nstops' = nstops + 1 /\ active) => status' = "stopped"
     /\ (nstops' = nstops + 1 /\ ~active) =>
          /\ stops'[nstops + 1].pc = "done"
          /\ stops'[nstops + 1].res = "false"
          /\ UNCHANGED <<jobVars, sessionVars, db, loops>>]_vars

\* a second stop() has been answered after the first one returned success
W_C3_SecondStopAnswered ==
  /\ stops[1].pc = "done" /\ stops[1].res = "true"
  /\ stops[2].pc = "done" /\ stops[2].res = "false"

\* C4: the capture session of a job is released exactly once over the job's
\* lifetime: the browser is never closed a second time, however stop() calls
\* and the loop's own cleanup interleave.
CE_C4_ReleasedOnce == browserCloses <= 1

\* C5: stopped, completed and failed are terminal: once the in-memory status
\* or the durable status is one of them, no step changes it.
CE_C5_TerminalIsFinal ==
  [][/\ status \in Terminal => status' = status
     /\ db.status \in Terminal => db'.status = db.status]_vars

\* C6: only the frontier becoming empty while the status is running makes a
\* job completed: a loop leaves for updateCrawlStatus('completed') only with
\* an empty queue and status running.
CE_C6_CompletedOnlyWhenExhausted ==
  [][\A l \in LoopIds :
       (loops[l].pc # "st_completed" /\ loops'[l].pc = "st_completed") =>
         (status = "running" /\ loops'[l].queue = <<>>)]_vars

\* C7: a paused job stays paused, keeps its capture session and stays in the
\* registry until resume() or stop() is issued.
CE_C7_PausedUntilCommand ==
  [][(active /\ status = "paused") =>
       \/ ResumeCrawl
       \/ StopCrawl
       \/ /\ status' = "paused"
          /\ active'
          /\ UNCHANGED <<closedPages, contextClosed, browserCloses>>]_vars

\* C8: for one job at most one crawl loop is in its per-URL pipeline at any
\* time, so at most one pipeline stage is in flight.
CE_C8_OneLoop == Cardinality({l \in LoopIds : loops[l].pc \in Stages}) <= 1

\* C9: stop() is not preemptive: no step of stopCrawl closes the page that a
\* pipeline stage in flight is using.
CE_C9_StopNotPreemptive ==
  [][\A s \in StopIds : StopCleanup(s) =>
       \A l \in LoopIds :
         (loops[l].pc \in PageStages /\ ~PageClosed(l)) => ~PageClosed(l)']_vars

\* C10, as claimed: every (url, depth) pair in the frontier has depth <=
\* maxDepth, whether it was appended from link extraction or put at the head
\* from the advisory priority urls.
CE_C10_DepthBounded ==
  \A l \in LoopIds : \A e \in QueueSet(loops[l].queue) : e.depth <= maxDepth

\* C10: every pair appended from link extraction has depth <= maxDepth; a
\* pair put at the head from the advisory priority urls is one level below
\* its page, so no pair in the frontier is deeper than maxDepth + 1; and no
\* pair deeper than maxDepth is ever taken for processing.
T_C10_DepthBoundedAtUse ==
  /\ [](\A l \in LoopIds :
          /\ \A e \in QueueSet(loops[l].queue) : e.depth <= maxDepth + 1
          /\ loops[l].pc \in Stages \cup {"err_db"} => loops[l].depth <= maxDepth)
  /\ [][\A l \in LoopIds : ExtractLinks(l) =>
          \A i \in (Len(loops[l].queue) + 1)..Len(loops'[l].queue) :
            loops'[l].queue[i].depth <= maxDepth]_vars

\* an advisory priority url sits in the frontier one level below maxDepth
W_C10_PriorityBelowMaxDepth ==
  \E l \in LoopIds : \E e \in QueueSet(loops[l].queue) : e.depth = maxDepth + 1

\* C11, as claimed: in every reachable state the frontier of a loop holds no
\* URL the loop has visited and no URL twice.
CE_C11_FrontierClean ==
  \A l \in LoopIds :
    \A i \in 1..Len(loops[l].queue) :
      /\ loops[l].queue[i].url \notin loops[l].visited
      /\ \A j \in 1..Len(loops[l].queue) :
           loops[l].queue[j].url = loops[l].queue[i].url => j = i

\* C11: extracted links are all appended to the frontier, visited or queued
\* or not; the visited test is made when an entry is taken from the frontier,
\* so a loop never takes for processing a URL it has already visited.
T_C11_VisitedDroppedAtDequeue ==
  [][\A l \in LoopIds :
       /\ (ExtractLinks(l) /\ loops'[l].pc = "update") =>
            Len(loops'[l].queue) = Len(loops[l].queue) + Len(Links(loops[l].url))
       /\ (loops[l].pc # "goto" /\ loops'[l].pc = "goto") =>
            /\ loops'[l].url \notin loops[l].visited
            /\ loops'[l].visited = loops[l].visited \cup {loops'[l].url}]_vars

\* a loop is processing a page while its frontier holds a URL it has visited
W_C11_VisitedInFrontier ==
  \E l \in LoopIds :
    /\ loops[l].pc \in Stages
    /\ \E e \in QueueSet(loops[l].queue) : e.url \in loops[l].visited

\* C12: every URL a loop has taken from its frontier is in the job's
\* visitedUrls exactly once as soon as the loop is through with it, whether
\* its pipeline succeeded or not, and the job's visitedUrls never holds a URL
\* twice, pause and resume included.
CE_C12_VisitedExactlyOnce ==
  \A u \in Urls :
    /\ db.visitedUrls[u] <= 1
    /\ \A l \in LoopIds :
         (/\ u \in loops[l].visited
          /\ ~(loops[l].url = u /\ loops[l].pc \in Stages \cup {"err_db"}))
           => db.visitedUrls[u] = 1

\* the URLs at most k link hops from the root
RECURSIVE ReachWithin(_)
ReachWithin(k) ==
  IF k = 0 THEN {Root}
  ELSE LET R == ReachWithin(k - 1) IN
       R \cup UNION {{Links(u)[i] : i \in 1..Len(Links(u))} : u \in R}

T_C14_OcrFailureIsolated ==
  [][\A l \in LoopIds :
       (loops[l].pc = "ocr" /\ loops'[l].pc # "ocr" /\ events' = events + 1) =>
         /\ UNCHANGED <<jobVars, db>>
         /\ loops'[l].pc = IF loops[l].depth < maxDepth THEN "links" ELSE "update"
         /\ loops'[l].url = loops[l].url
         /\ loops'[l].queue = loops[l].queue]_vars

\* the root's links are about to be extracted after the only disturbance so
\* far, which no error records: a failed recognition of the root's screenshot
W_C14_LinksAfterOcrFailure ==
  /\ events = 1 /\ Issued = 0
  /\ loops[1].pc = "links" /\ loops[1].url = Root
  /\ Length(errors) = 0

\* C15: a failing scroll-to-completion stage does not abort its URL: whatever
\* the outcome of the stage, the screenshot is attempted next, no error is
\* recorded and the job's status is unchanged.
CE_C15_ScrollFailureIsolated ==
  [][\A l \in LoopIds :
       (loops[l].pc = "scroll" /\ loops'[l].pc # "scroll") =>
         /\ loops'[l].pc = "shot"
         /\ errors' = errors
         /\ status' = status]_vars

\* C16: a failing link extraction degrades to no links: whatever the outcome
\* of the stage, the URL goes on to be recorded as processed, no error is
\* recorded and the job's status is unchanged.
CE_C16_LinksFailureIsolated ==
  [][\A l \in LoopIds :
       (loops[l].pc = "links" /\ loops'[l].pc # "links") =>
         /\ loops'[l].pc = "update"
         /\ errors' = errors
         /\ status' = status]_vars

CE_C18_CollaboratorFailuresContained ==
  loops[1].failing => (db.status # "failed" /\ status # "failed")

\* every call made for the job has returned
Quiescent ==
  /\ \A l \in LoopIds : loops[l].pc \in {"idle", "done"}
  /\ \A s \in StopIds : stops[s].pc \in {"idle", "done"}
  /\ pausePending = 0 /\ resumePending = 0

\* C19: a job whose crawl loop was left by an exception ends failed: once
\* every call made for it has returned, its capture session is released, it
\* is out of the active table and its durable status is failed.
CE_C19_EscapedExceptionEndsFailed ==
  (Quiescent /\ \E l \in LoopIds : loops[l].failing) =>
    /\ ~active
    /\ browserCloses >= 1
    /\ db.status = "failed"

CE_C24_FailedRequestRetried ==
  [][\A l \in LoopIds :
       loops[l].pc = "goto" =>
         /\ errors'[loops[l].url] = errors[loops[l].url]
         /\ loops'[l].pc # "err_db"]_vars

\* C25: status(jobId) is a faithful projection: while the job is active the
\* reported pagesProcessed is the number of URLs processed so far (the value
\* of the durable snapshot) and the reported status is the job's current
\* status; once the job is finished the reported values are the snapshot's.
CE_C25_StatusIsProjection ==
  /\ active =>
       /\ GetCrawlStatus.pagesProcessed = db.pagesProcessed
       /\ GetCrawlStatus.status = status
  /\ (~active /\ db.status # "none") =>
       /\ GetCrawlStatus.pagesProcessed = db.pagesProcessed
       /\ GetCrawlStatus.status = db.status

\* C23: every advisory-service failure (call error, malformed answer, missing
\* API key) degrades to a default result and never propagates: whatever
\* analyzePage gets from the service for a URL whose page is open, the step
\* records no URL error, leaves the URL counted as processed and leaves the
\* status of the job alone.
CE_C23_AdvisoryFailureDegrades ==
  [][\A l \in LoopIds :
       (loops[l].pc = "ai" /\ ~PageClosed(l) /\ loops'[l] # loops[l]) =>
         /\ loops'[l].pc = "delay"
         /\ errors' = errors
         /\ db' = db /\ status' = status]_vars

\* loop l takes its next URL from its frontier in this step
Yields(l) == loops[l].pc # "goto" /\ loops'[l].pc = "goto"

\* C30: when no advisory priority URLs are inserted, URLs are processed in
\* breadth-first order: the depths of successively processed URLs of a job
\* are non-decreasing (no URL is taken at a depth below that of a URL the job
\* is already processing), and URLs of equal depth are processed in the order
\* of their insertion (the URL taken is the first frontier entry that is not
\* skipped).
CE_C30_BreadthFirst ==
  [][\A l \in LoopIds :
       Yields(l) =>
         /\ \A k \in LoopIds :
              loops[k].url # "" => loops[k].depth <= loops'[l].depth
         /\ LET q == Skip(loops[l].queue, loops[l].visited) IN
              /\ loops'[l].url = Head(q).url
              /\ loops'[l].depth = Head(q).depth
              /\ loops'[l].queue = Tail(q)]_vars

\* C21: every lifecycle transition (start, pause, resume, stop, complete,
\* fail) both persists the new status and emits a status event carrying the
\* new status: a persisted status is not replaced by the next one before an
\* event carrying it has been emitted.
CE_C21_TransitionsEmit ==
  [][(db.status # "none" /\ db'.status # db.status) =>
       \E e \in emitted : e.status = db.status]_vars

\* the depth of a request is an integer in [1,10]
IntegerInRange(d) ==
  d.kind = "number" /\ d.tenths % 10 = 0 /\ d.tenths \in (10 * MinRequestDepth)..(10 * MaxRequestDepth)

\* C22: start(url, depth, options) rejects every request whose depth is not
\* an integer in [1,10] or whose url does not parse as an absolute URL, and
\* then creates no job; hence every job that exists has an integer maxDepth
\* in [1,10].
CE_C22_StartRejectsBadDepth ==
  /\ request.stage = "validated" =>
       IntegerInRange(request.depth) /\ request.url = "absolute"
  /\ request.stage = "rejected" => db.status = "none" /\ ~active
  /\ db.status # "none" => maxDepth \in MinRequestDepth..MaxRequestDepth

\* C28: the scroll detector performs at most maxScrolls scrolls and stops at
\* the first extent measurement that equals the previous one: when the extent
\* measured after scroll k equals the extent measured before it, scroll k + 1
\* never happens (equal measurements after scroll 2 of at most 10 give
\* exactly 2 scrolls).
T_C28_ScrollStopsAtEqualExtent ==
  /\ scroll.scrolled <= scroll.maxScrolls
  /\ \A k \in 1..(Len(scroll.measured) - 1) :
       scroll.measured[k + 1] = scroll.measured[k] => scroll.scrolled = k

\* a run with the default maximum of 10 that ended after scroll 2, because
\* the third measurement equalled the second
W_C28_StoppedAtSecondScroll ==
  /\ scroll.pc = "returned"
  /\ scroll.maxScrolls = DefaultMaxScrolls
  /\ Len(scroll.measured) = 3
  /\ scroll.measured[2] # scroll.measured[1]
  /\ scroll.measured[3] = scroll.measured[2]
  /\ scroll.scrolled = 2

\* C29: every run of the scroll detector, whichever way it ends (equal
\* extents, maximum scroll count, timeout, or a failing measurement or scroll
\* call), finishes by resetting the scroll position to the top as its last
\* action on the capture session.
CE_C29_ScrollEndsAtTop ==
  scroll.pc \in {"returned", "threw"} => scroll.lastCall = "top"

\* how many of the entries es are newer than, or as new as, time t
NewerThan(es, t) == Cardinality({j \in 1..Len(es) : es[j].timestamp > t})
AsNewAs(es, t) == Cardinality({j \in 1..Len(es) : es[j].timestamp >= t})

\* C26: logs(jobId, limit, offset) returns the entries at positions offset ..
\* offset+limit-1 of the job's log entries ordered newest-first
\* (non-increasing time stamp), hence at most limit entries and none when
\* offset is past the end; for an unknown job id it reports not found.
T_C26_LogsPage ==
  logs.pc = "answered" =>
    IF ~logs.found THEN logs.answer = 404
    ELSE LET es == LogEntries(logs.doc)
             res == logs.result
             rest == Len(es) - logs.offset
         IN  /\ logs.answer = 200
             /\ Len(res) = IF rest <= 0 THEN 0
                           ELSE IF logs.limit < rest THEN logs.limit ELSE rest
             /\ \A i \in 1..Len(res) :
                  /\ \E j \in 1..Len(es) : es[j] = res[i]
                  /\ \A k \in 1..Len(res) : k # i => res[k] # res[i]
                  /\ NewerThan(es, res[i].timestamp) <= logs.offset + i - 1
                  /\ AsNewAs(es, res[i].timestamp) >= logs.offset + i
             /\ \A i \in 1..(Len(res) - 1) :
                  res[i].timestamp >= res[i + 1].timestamp

\* a page of two entries of different age that starts after the first entry
\* and ends before the last one
W_C26_InnerPage ==
  /\ logs.pc = "answered" /\ logs.answer = 200
  /\ logs.offset >= 1
  /\ logs.limit = 2
  /\ Len(LogEntries(logs.doc)) > logs.offset + logs.limit
  /\ Len(logs.result) = 2
  /\ logs.result[1].timestamp > logs.result[2].timestamp

\* what belongs to job j: its activeCrawls entry, its document, its
\* processCrawl invocations and the browsers launched for it
JobState(J, j) ==
  <<J.entry[j], J.doc[j], J.proc[j],
    [b \in {x \in BrowserIds : J.browsers[x].launchedBy = j} |-> J.browsers[b]]>>

\* C27: jobs are independent: a command on, a failure of, or the cleanup of
\* job A changes no state of a different job B (status, frontier, visited
\* set, counters, durable snapshot), and no capture session is ever used or
\* released by a job other than its owner.
T_C27_JobsIndependent ==
  [][/\ \A b \in JobIds \ {jobs'.last} : JobState(jobs', b) = JobState(jobs, b)
     /\ \A x \in BrowserIds :
          jobs'.browsers[x].usedBy \cup jobs'.browsers[x].closedBy
            \subseteq {jobs'.browsers[x].launchedBy}]_vars

\* job A, started while job B was running, had a failing url, was stopped and
\* cleaned up, and job B goes on crawling on its own open browser
W_C27_OneStoppedOtherRunning ==
  /\ jobs.entry["A"].browser > jobs.entry["B"].browser
  /\ jobs.doc["A"].status = "stopped" /\ jobs.doc["A"].errors > 0
  /\ ~jobs.entry["A"].active
  /\ jobs.browsers[jobs.entry["A"].browser].closedBy = {"A"}
  /\ jobs.entry["B"].active /\ jobs.entry["B"].status = "running"
  /\ jobs.doc["B"].pagesProcessed > 0
  /\ jobs.browsers[jobs.entry["B"].browser].open

\* the priority urls of the answer that are not yet visited: u1..uk
NotYetVisited(f) ==
  LET Fresh(u) == u \notin f.visited IN SelectSeq(f.priorityUrls, Fresh)

TokenCount(text) ==
  Cardinality({i \in 1..Len(text) :
                 text[i] # Space /\ (i = 1 \/ text[i - 1] = Space)})
TokenChars(text) == Cardinality({i \in 1..Len(text) : text[i] # Space})
ErrorGlyphs(text) == Cardinality({i \in 1..Len(text) : text[i] = Glyph})

\* clamp(round(min(100, 40 + 30 log10(tokenCount)) + min(20, 2 avgTokenLength)
\*             - 50 errorGlyphFraction)), for a text with a token
Score(text) ==
  LET x == Min(100 * Unit, 40 * Unit + 30 * Log10[TokenCount(text)])
           + Min(20 * Unit, (2 * TokenChars(text) * Unit) \div TokenCount(text))
           - (50 * ErrorGlyphs(text) * Unit) \div Len(text)
      r == Round(x)
  IN IF r < 0 THEN 0 ELSE IF r > 100 THEN 100 ELSE r

\* C32: the confidence score is 0 for an empty or white-space-only text, and
\* otherwise the integer in 0..100 the formula gives; a text of 50 tokens of
\* average length 6 without error glyphs scores within 70..100
T_C32_ConfidenceScore ==
  ocr.pc = "returned" =>
    /\ TokenCount(ocr.text) = 0 => ocr.confidence = 0
    /\ TokenCount(ocr.text) > 0 =>
         /\ ocr.confidence \in 0..100
         /\ ocr.confidence = Score(ocr.text)
    /\ (/\ TokenCount(ocr.text) = 50
        /\ TokenChars(ocr.text) = 6 * 50
        /\ ErrorGlyphs(ocr.text) = 0) => ocr.confidence \in 70..100

\* the score of a text of 50 tokens of 6 letters each was computed
W_C32_FiftyTokensOfSix ==
  /\ ocr.pc = "returned"
  /\ TokenCount(ocr.text) = 50
  /\ TokenChars(ocr.text) = 6 * 50
  /\ ErrorGlyphs(ocr.text) = 0
  /\ ocr.confidence \in 70..100

\* C33: every started job eventually is out of activeCrawls, having got a
\* terminal status (in its entry or in its document)
CE_C33_JobTerminates ==
  (db.status # "none") ~>
     (~active /\ (status \in Terminal \/ db.status \in Terminal))

\* the entries loop l shifts from its queue in this step: the step runs the
\* while loop of line 168 from its test, after a page, after a persisted
\* error or after the page of the loop was opened
Shifted(l) ==
  SubSeq(loops[l].queue, 1, Len(loops[l].queue) - Len(loops'[l].queue))

Dequeues(l) ==
  /\ loops[l].pc \in {"newPage", "delay", "err_db"}
  /\ loops'[l].pc \in {"goto", "st_completed"}
  /\ status = "running"

\* C34: no URL is navigated at a depth greater than maxDepth: an entry the
\* loop dequeues with a depth above maxDepth is dropped; the step does not go
\* to that entry, does not mark its url visited, captures no screenshot and
\* changes no counter of the job
T_C34_TooDeepDropped ==
  [][\A l \in LoopIds :
       /\ loops'[l].pc = "goto" => loops'[l].depth <= maxDepth
       /\ Dequeues(l) =>
            \A i \in 1..Len(Shifted(l)) :
              LET e == Shifted(l)[i] IN
              e.depth > maxDepth =>
                /\ ~(loops'[l].pc = "goto" /\ i = Len(Shifted(l)))
                /\ e.url \in loops'[l].visited =>
                     \/ e.url \in loops[l].visited
                     \/ /\ loops'[l].pc = "goto"
                        /\ loops'[l].url = e.url
                        /\ loops'[l].depth <= maxDepth
                /\ UNCHANGED <<capturedScreenshots, errors>>
                /\ db'.pagesProcessed = db.pagesProcessed
                /\ db'.visitedUrls = db.visitedUrls]_vars

\* a loop has finished a page and is about to dequeue an entry that is deeper
\* than maxDepth and names a url it has not visited
W_C34_TooDeepAtHead ==
  \E l \in LoopIds :
    /\ loops[l].pc = "delay"
    /\ status = "running"
    /\ loops[l].queue # <<>>
    /\ Head(loops[l].queue).depth > maxDepth
    /\ Head(loops[l].queue).url \notin loops[l].visited

\* C35: whenever a started job is not in activeCrawls, the status of its
\* document is stopped, completed or failed
CE_C35_DurableTerminalOnceInactive ==
  (db.status # "none" /\ ~active) => db.status \in Terminal

\* C36: a loop goes to a page only from the rate-limit delay that follows the
\* page before it, or, for its first page, from the opening of its page
CE_C36_DelayBeforeEveryNavigation ==
  [][\A l \in LoopIds :
       (loops[l].pc # "goto" /\ loops'[l].pc = "goto") =>
         loops[l].pc \in {"delay", "newPage"}]_vars

\* C37: when startCrawl has thrown, the document does not say running for a
\* job that is not in activeCrawls, and no browser it launched is left open
CE_C37_FailedStartLeavesNothing ==
  startup.pc = "threw" =>
    /\ ~(db.status = "running" /\ ~active)
    /\ startup.browser # "open"

\* C38: once the job is terminal, is out of activeCrawls and nothing of it
\* runs any more, the document's errorCount is the number of entries of its
\* errors list and its screenshotCount is the number of urls with a
\* screenshot
CE_C38_CountsMatchTheLists ==
  (Quiescent /\ ~active /\ db.status \in Terminal) =>
    /\ db.errorCount = Length(db.errors)
    /\ db.screenshotCount = Cardinality({u \in Urls : capturedScreenshots[u] > 0})

====
